---- MODULE Spec2Model ----
(***************************************************************************)
(* Model of internvl_chat/eval/longvideobench/evaluate_longvideobench.py:  *)
(* the answer-matching heuristic (check_answer), the image loader with     *)
(* bounded retry (ImageIO.__call__), the shard assignment of               *)
(* InferenceSamplerV2, and the distributed evaluation loop                 *)
(* (evaluate_chat_model).                                                  *)
(*                                                                         *)
(* Python strings are sequences of one-character strings.                  *)
(***************************************************************************)
EXTENDS Integers, Sequences, FiniteSets, TLC

VARIABLES
    \* check_answer
    predict, gt_answer, flag, exc, ck_pc,
    \* ImageIO.__call__
    auto_retry, raise_error, load_ok, i, err, io_result,
    \* InferenceSamplerV2 (shared by the evaluation loop)
    total_size, world_size, local_indices, yielded, exhausted, sampler_len,
    sampler_exc, ranges,
    \* evaluate_chat_model
    pc, outputs, issued, gathered, merged_outputs, metrics, metrics_file

checkVars == <<predict, gt_answer, flag, exc, ck_pc>>
ioVars == <<auto_retry, raise_error, load_ok, i, err, io_result>>
shardVars ==
    <<total_size, world_size, local_indices, yielded, exhausted, sampler_len,
      sampler_exc, ranges>>
evalVars == <<pc, outputs, issued, gathered, merged_outputs, metrics, metrics_file>>
vars == <<checkVars, ioVars, shardVars, evalVars>>

\* Values of the variables a specification does not use.
CheckIdle ==
    /\ predict = <<>> /\ gt_answer = <<>> /\ flag = FALSE /\ exc = "" /\ ck_pc = "idle"

IOIdle ==
    /\ auto_retry = FALSE /\ raise_error = FALSE /\ load_ok = <<>> /\ i = 0
    /\ err = "" /\ io_result = [kind |-> "idle"]

ShardIdle ==
    /\ total_size = 0 /\ world_size = 1 /\ local_indices = <<>> /\ yielded = <<>>
    /\ exhausted = {} /\ sampler_len = <<>> /\ sampler_exc = <<>> /\ ranges = <<>>

EvalIdle ==
    /\ pc = <<>> /\ outputs = <<>> /\ issued = <<>> /\ gathered = <<>>
    /\ merged_outputs = <<>> /\ metrics = <<>> /\ metrics_file = <<>>

(***************************************************************************)
(* Bounds of the model.                                                    *)
(***************************************************************************)
MaxPredLen == 3
MaxGtLen == 4
MaxSize == 5
MaxWorld == 3
MaxEvalSize == 4
MaxEvalWorld == 3

(***************************************************************************)
(* Python str operations used by check_answer.                             *)
(***************************************************************************)
\* Characters the inputs are drawn from: an upper-case letter, another
\* letter, the period, the space, and a whitespace character that is not
\* the space.
Alphabet == {"A", "b", ".", " ", "\n"}

Whitespace == {" ", "\n"}

RECURSIVE StrUpTo(_)
StrUpTo(n) ==
    IF n = 0 THEN {<<>>}
    ELSE LET shorter == StrUpTo(n - 1)
         IN  shorter \cup {Append(s, c) : s \in {t \in shorter : Len(t) = n - 1}, c \in Alphabet}

\* str.lower on one character
LowerChar(c) ==
    IF c = "A" THEN "a" ELSE IF c = "B" THEN "b" ELSE c

\* str.lower
Lower(s) == [k \in 1..Len(s) |-> LowerChar(s[k])]

\* str.split(sep) with an explicit one-character separator: every
\* separator cuts, empty pieces are kept, '' gives [''].
RECURSIVE SplitFrom(_, _, _)
SplitFrom(s, sep, cur) ==
    IF s = <<>> THEN <<cur>>
    ELSE IF Head(s) = sep THEN <<cur>> \o SplitFrom(Tail(s), sep, <<>>)
    ELSE SplitFrom(Tail(s), sep, Append(cur, Head(s)))

Split(s, sep) == SplitFrom(s, sep, <<>>)

\* sep.join(parts), sep a string
RECURSIVE Join(_, _)
Join(sep, parts) ==
    IF parts = <<>> THEN <<>>
    ELSE IF Len(parts) = 1 THEN parts[1]
    ELSE parts[1] \o sep \o Join(sep, Tail(parts))

\* s.replace(c, '')
Remove(s, c) == SelectSeq(s, LAMBDA x : x # c)

\* str.strip(): whitespace removed at both ends, that is the text from the
\* first to the last character that is not whitespace
Strip(s) ==
    IF \A k \in 1..Len(s) : s[k] \in Whitespace THEN <<>>
    ELSE SubSeq(s, CHOOSE k \in 1..Len(s) :
                      s[k] \notin Whitespace /\ \A j \in 1..(k - 1) : s[j] \in Whitespace,
                   CHOOSE k \in 1..Len(s) :
                      s[k] \notin Whitespace /\ \A j \in (k + 1)..Len(s) : s[j] \in Whitespace)

\* a in b, for strings
IsSubstr(a, b) ==
    \E k \in 0..(Len(b) - Len(a)) : SubSeq(b, k + 1, k + Len(a)) = a

(***************************************************************************)
(* check_answer(predict, gt_answer)                                        *)
(***************************************************************************)
\* A singleton set binds a local the way an assignment does:
\* \E x \in {e} : P(x) is P with x the value of e.
\*
\* pred_list = predict.lower().split(' ')
PredList(p) == Split(Lower(Lower(p)), " ")
\* pred_option, pred_content = pred_list[0], ' '.join(pred_list[1:])
PredOption(p) == PredList(p)[1]
PredContent(p) == Join(<<" ">>, Tail(PredList(p)))

\* gt_list = gt_answer.lower().split(' ')
GtList(g) == Split(Lower(Lower(g)), " ")
\* gt_option, gt_content = gt_list[0], ' '.join(gt_list[1:])
GtOption(g) == GtList(g)[1]
GtContentRaw(g) == Join(<<" ">>, Tail(GtList(g)))

\* gt_content[-1] on the empty string raises IndexError
CheckAnswerRaises(p, g) ==
    \E gt_list \in {GtList(g)} :
    \E gt_content \in {Join(<<" ">>, Tail(gt_list))} :
       gt_content = <<>>

\* if gt_content[-1] == '.': gt_content = gt_content[:-1]
GtContent(c) ==
    IF c[Len(c)] = "." THEN SubSeq(c, 1, Len(c) - 1) ELSE c

\* pred_option.replace('.', '').strip() in gt_option
OptionMatches(pred_option, gt_option) ==
    \E needle \in {Strip(Remove(pred_option, "."))} : IsSubstr(needle, gt_option)

\* gt_content.strip() in pred_content
ContentMatches(gt_content, pred_content) ==
    \E needle \in {Strip(gt_content)} : IsSubstr(needle, pred_content)

\* the returned flag, defined when CheckAnswerRaises is false
CheckAnswer(p, g) ==
    \E pred_list \in {PredList(p)} :
    \E gt_list \in {GtList(g)} :
    \E pred_option \in {pred_list[1]} :
    \E pred_content \in {Join(<<" ">>, Tail(pred_list))} :
    \E gt_option \in {gt_list[1]} :
    \E gt_content \in {GtContent(Join(<<" ">>, Tail(gt_list)))} :
       IF OptionMatches(pred_option, gt_option) THEN TRUE
       ELSE IF ContentMatches(gt_content, pred_content) THEN TRUE
       ELSE FALSE

CheckInit ==
    /\ predict \in StrUpTo(MaxPredLen)
    /\ gt_answer \in StrUpTo(MaxGtLen)
    /\ flag = FALSE
    /\ exc = ""
    /\ ck_pc = "call"
    /\ IOIdle /\ ShardIdle /\ EvalIdle

CheckAnswerReturn ==
    /\ ck_pc = "call"
    /\ ~CheckAnswerRaises(predict, gt_answer)
    /\ flag' = CheckAnswer(predict, gt_answer)
    /\ ck_pc' = "returned"
    /\ UNCHANGED <<predict, gt_answer, exc, ioVars, shardVars, evalVars>>

CheckAnswerIndexError ==
    /\ ck_pc = "call"
    /\ CheckAnswerRaises(predict, gt_answer)
    /\ exc' = "IndexError"
    /\ ck_pc' = "raised"
    /\ UNCHANGED <<predict, gt_answer, flag, ioVars, shardVars, evalVars>>

CheckNext == CheckAnswerReturn \/ CheckAnswerIndexError

SpecCheck == CheckInit /\ [][CheckNext]_vars

(***************************************************************************)
(* Claims about check_answer (SpecCheck).                                  *)
(***************************************************************************)
\* The match as the specification words it: the predicted option with its
\* periods removed is inside the ground-truth option, or the ground-truth
\* content, one trailing period removed and stripped, is inside the
\* predicted content.
DropTrailingPeriod(s) ==
    IF s # <<>> /\ s[Len(s)] = "." THEN SubSeq(s, 1, Len(s) - 1) ELSE s

StatedMatch(p, g) ==
    \/ IsSubstr(Remove(PredOption(p), "."), GtOption(g))
    \/ IsSubstr(Strip(DropTrailingPeriod(GtContentRaw(g))), PredContent(p))

\* C6: for every pair of strings check_answer returns a boolean, and that
\* boolean is True exactly when the stated match holds.
C6_ReturnsStatedMatch ==
    ck_pc # "call" => (exc = "" /\ ck_pc = "returned" /\ flag = StatedMatch(predict, gt_answer))

Letters == {"A", "b"}

\* '<letter>. <non-empty content>'
GtIsLetterDotContent(g) ==
    /\ Len(g) >= 4
    /\ g[1] \in Letters
    /\ g[2] = "."
    /\ g[3] = " "

\* the prediction is empty, or its first space-separated token is made of
\* periods only
NamesNoOption(p) ==
    \/ p = <<>>
    \/ LET tok == Split(p, " ")[1]
       IN  tok # <<>> /\ \A k \in 1..Len(tok) : tok[k] = "."

\* C10: a prediction that names no option is never scored correct against a
\* ground truth '<letter>. <content>', unless the ground-truth content is
\* contained in the prediction's content.
C10_NoOptionNotCorrect ==
    ( /\ ck_pc # "call"
      /\ GtIsLetterDotContent(gt_answer)
      /\ NamesNoOption(predict)
      /\ ~IsSubstr(Strip(DropTrailingPeriod(GtContentRaw(gt_answer))), PredContent(predict)) )
    => (ck_pc = "returned" /\ flag = FALSE)

(***************************************************************************)
(* ImageIO.__call__(image_url, auto_retry, raise_error)                    *)
(***************************************************************************)
\* ImageIO.__init__: self.retry_num
retry_num == 10

EmptyWidth == 800
EmptyHeight == 600
White == 255

\* Image.open(image_url).convert('RGB') at the given attempt
LoadedImage(attempt) ==
    [mode |-> "RGB", width |-> 0, height |-> 0, fill |-> 0, attempt |-> attempt]

\* empty_image()
empty_image ==
    [mode |-> "RGB", width |-> EmptyWidth, height |-> EmptyHeight, fill |-> White, attempt |-> 0]

\* the value of a call that falls off the end of the function
None ==
    [mode |-> "None", width |-> 0, height |-> 0, fill |-> 0, attempt |-> 0]

Running == [kind |-> "running", value |-> None]
Returned(v) == [kind |-> "return", value |-> v]
Raised == [kind |-> "RuntimeError", value |-> None]

\* What one attempt raises when it does not load: os.path.isfile is false
\* and `return image` reads an unbound local, or Image.open/convert raises.
LoadErrors == {"UnboundLocalError", "OSError"}

OnException_NeverRetries(retry, raise) ==
    IF raise THEN Raised ELSE Returned(empty_image)

\* the except branch: go round the loop again, raise, or return the placeholder
OnException(retry, raise) ==
    IF retry THEN Running
    ELSE IF raise THEN Raised
    ELSE Returned(empty_image)

\* range(self.retry_num): the loop has another iteration
LoopHasNext(n) == n < retry_num

IOInit ==
    /\ auto_retry \in BOOLEAN
    /\ raise_error \in BOOLEAN
    /\ load_ok \in [1..retry_num -> BOOLEAN]
    /\ i = 0
    /\ err = ""
    /\ io_result = Running
    /\ CheckIdle /\ ShardIdle /\ EvalIdle

\* an iteration whose try block returns the image
IOAttemptLoads ==
    /\ io_result = Running
    /\ LoopHasNext(i)
    /\ load_ok[i + 1]
    /\ i' = i + 1
    /\ io_result' = Returned(LoadedImage(i + 1))
    /\ UNCHANGED <<auto_retry, raise_error, load_ok, err, checkVars, shardVars, evalVars>>

\* an iteration whose try block raises
IOAttemptFails ==
    /\ io_result = Running
    /\ LoopHasNext(i)
    /\ ~load_ok[i + 1]
    /\ \E e \in LoadErrors : err' = e
    /\ i' = i + 1
    /\ io_result' = OnException(auto_retry, raise_error)
    /\ UNCHANGED <<auto_retry, raise_error, load_ok, checkVars, shardVars, evalVars>>

\* the for loop ends and the function falls off its end
IOLoopExhausted ==
    /\ io_result = Running
    /\ ~LoopHasNext(i)
    /\ io_result' = Returned(None)
    /\ UNCHANGED <<auto_retry, raise_error, load_ok, i, err, checkVars, shardVars, evalVars>>

IONext == IOAttemptLoads \/ IOAttemptFails \/ IOLoopExhausted

SpecIO == IOInit /\ [][IONext]_vars

(***************************************************************************)
(* Claims about ImageIO.__call__ (SpecIO).                                 *)
(***************************************************************************)
IODone == io_result # Running

AllAttemptsFail == \A k \in 1..retry_num : ~load_ok[k]

\* the first attempt that would load, retry_num + 1 when none would
FirstOk ==
    IF AllAttemptsFail THEN retry_num + 1
    ELSE CHOOSE k \in 1..retry_num : load_ok[k] /\ \A j \in 1..(k - 1) : ~load_ok[j]

\* C4: when every attempt fails, the call either raises or returns the
\* blank placeholder image, whatever the flags.
C4_RaiseOrPlaceholder ==
    (IODone /\ AllAttemptsFail) => (io_result = Raised \/ io_result = Returned(empty_image))

\* C5 as stated: at most retry_num attempts, and for every flag combination
\* a load that first succeeds at attempt k is reached and its image returned.
C5_RetriesUntilSuccess ==
    /\ i <= retry_num
    /\ (IODone /\ FirstOk <= retry_num)
          => (i = FirstOk /\ io_result = Returned(LoadedImage(FirstOk)))

\* C5 amended: at most retry_num attempts; with auto_retry set, a load that
\* first succeeds at attempt k is reached and its image returned; without
\* auto_retry the call makes exactly one attempt and returns its image when
\* that attempt loads.
C5_RetriesWhenAutoRetry ==
    /\ i <= retry_num
    /\ (IODone /\ auto_retry /\ FirstOk <= retry_num)
          => (i = FirstOk /\ io_result = Returned(LoadedImage(FirstOk)))
    /\ (IODone /\ ~auto_retry)
          => (i = 1 /\ (load_ok[1] => io_result = Returned(LoadedImage(1))))

C5_Witness ==
    /\ IODone /\ auto_retry /\ FirstOk = 3 /\ i = 3
    /\ io_result = Returned(LoadedImage(3))

(***************************************************************************)
(* InferenceSamplerV2                                                      *)
(***************************************************************************)
\* dist.get_rank() ranges over 0 .. world_size - 1
Ranks == 0..(world_size - 1)

\* int(b)
IntOfBool(b) == IF b THEN 1 ELSE 0

Min(a, b) == IF a <= b THEN a ELSE b

RECURSIVE Sum(_)
Sum(s) == IF s = <<>> THEN 0 ELSE Head(s) + Sum(Tail(s))

\* a Python slice s[:n] of a list
SliceTo(s, n) == SubSeq(s, 1, Min(n, Len(s)))

ShardSize_LeftInclusive(total, world, r) ==
    (total \div world) + IntOfBool(r <= total % world)

\* shard_size + int(r < left)
ShardSize(total, world, r) ==
    (total \div world) + IntOfBool(r < total % world)

\* shard_sizes, a list indexed by rank (position r + 1 holds rank r)
shard_sizes(total, world) == [k \in 1..world |-> ShardSize(total, world, k - 1)]

GetLocalIndices_EndOneFurther(total, world, rank) ==
    [begin |-> Sum(SliceTo(shard_sizes(total, world), rank)),
     end |-> Min(Sum(SliceTo(shard_sizes(total, world), rank + 1)) + 1, total)]

\* _get_local_indices(total_size, world_size, rank): range(begin, end)
GetLocalIndices(total, world, rank) ==
    [begin |-> Sum(SliceTo(shard_sizes(total, world), rank)),
     end |-> Min(Sum(SliceTo(shard_sizes(total, world), rank + 1)), total)]

\* the integers of range(begin, end), empty when begin >= end
RangeSet(rg) == {k \in rg.begin..(rg.end - 1) : TRUE}

\* len(range(begin, end))
RangeLen(rg) == IF rg.end > rg.begin THEN rg.end - rg.begin ELSE 0

\* list(range(size))
RangeList(size) == [k \in 1..size |-> k - 1]

LocalIndices_UpToRank(size, world, rank) ==
    SelectSeq(RangeList(size), LAMBDA k : k % world <= rank)

LocalIndices_Contiguous(size, world, rank) ==
    SelectSeq(RangeList(size), LAMBDA k : k \in RangeSet(GetLocalIndices(size, world, rank)))

\* __init__: [i for i in range(size) if i % self._world_size == self._rank]
LocalIndices(size, world, rank) ==
    SelectSeq(RangeList(size), LAMBDA k : k % world = rank)

ShardInit ==
    /\ total_size \in 0..MaxSize
    /\ world_size \in 1..MaxWorld
    /\ local_indices = <<>>
    /\ yielded = <<>>
    /\ exhausted = {}
    /\ sampler_len = <<>>
    /\ sampler_exc = <<>>
    /\ ranges = <<>>
    /\ CheckIdle /\ IOIdle /\ EvalIdle

\* InferenceSamplerV2(size) on rank r, size an int > 0
SamplerInit(r) ==
    /\ r \notin DOMAIN local_indices
    /\ r \notin DOMAIN sampler_exc
    /\ total_size > 0
    /\ local_indices' = local_indices @@ (r :> LocalIndices(total_size, world_size, r))
    /\ yielded' = yielded @@ (r :> <<>>)
    /\ UNCHANGED <<total_size, world_size, exhausted, sampler_len, sampler_exc, ranges,
                 checkVars, ioVars, evalVars>>

\* InferenceSamplerV2(size) on rank r when `assert size > 0` fails
SamplerInitAssertFails(r) ==
    /\ r \notin DOMAIN local_indices
    /\ r \notin DOMAIN sampler_exc
    /\ ~(total_size > 0)
    /\ sampler_exc' = sampler_exc @@ (r :> "AssertionError")
    /\ UNCHANGED <<total_size, world_size, local_indices, yielded, exhausted, sampler_len, ranges,
                 checkVars, ioVars, evalVars>>

\* __iter__: the generator yields its next index
SamplerYield(r) ==
    /\ r \in DOMAIN local_indices
    /\ r \notin exhausted
    /\ Len(yielded[r]) < Len(local_indices[r])
    /\ yielded' = [yielded EXCEPT ![r] = Append(@, local_indices[r][Len(@) + 1])]
    /\ UNCHANGED <<total_size, world_size, local_indices, exhausted, sampler_len, sampler_exc, ranges,
                 checkVars, ioVars, evalVars>>

\* __iter__: the generator is resumed after its last index and stops
SamplerStop(r) ==
    /\ r \in DOMAIN local_indices
    /\ r \notin exhausted
    /\ Len(yielded[r]) = Len(local_indices[r])
    /\ exhausted' = exhausted \cup {r}
    /\ UNCHANGED <<total_size, world_size, local_indices, yielded, sampler_len, sampler_exc, ranges,
                 checkVars, ioVars, evalVars>>

\* __len__
SamplerLen(r) ==
    /\ r \in DOMAIN local_indices
    /\ r \notin DOMAIN sampler_len
    /\ sampler_len' = sampler_len @@ (r :> Len(local_indices[r]))
    /\ UNCHANGED <<total_size, world_size, local_indices, yielded, exhausted, sampler_exc, ranges,
                 checkVars, ioVars, evalVars>>

\* a call of the static method _get_local_indices(total_size, world_size, r)
GetLocalIndicesCall(r) ==
    /\ r \notin DOMAIN ranges
    /\ ranges' = ranges @@ (r :> GetLocalIndices(total_size, world_size, r))
    /\ UNCHANGED <<total_size, world_size, local_indices, yielded, exhausted, sampler_len, sampler_exc,
                 checkVars, ioVars, evalVars>>

ShardNext ==
    \/ \E r \in Ranks : SamplerInit(r)
    \/ \E r \in Ranks : SamplerInitAssertFails(r)
    \/ \E r \in Ranks : SamplerYield(r)
    \/ \E r \in Ranks : SamplerStop(r)
    \/ \E r \in Ranks : SamplerLen(r)
    \/ \E r \in Ranks : GetLocalIndicesCall(r)

SpecShard == ShardInit /\ [][ShardNext]_vars

(***************************************************************************)
(* Claims about the shard assignment (SpecShard).                          *)
(***************************************************************************)
Indices == 0..(total_size - 1)

AllRangesComputed == DOMAIN ranges = Ranks

AllSamplersBuilt == DOMAIN local_indices = Ranks

\* C1: the contiguous ranges of ranks 0 .. world_size-1 partition
\* [0, total_size): no range leaves it, no two ranges share an index, and
\* together they hold every index.
C1_ContiguousPartition ==
    /\ \A r \in DOMAIN ranges : RangeSet(ranges[r]) \subseteq Indices
    /\ \A r, q \in DOMAIN ranges :
          r # q => RangeSet(ranges[r]) \cap RangeSet(ranges[q]) = {}
    /\ AllRangesComputed =>
          \A x \in Indices : Cardinality({r \in Ranks : x \in RangeSet(ranges[r])}) = 1

C1_Witness ==
    /\ AllRangesComputed /\ total_size = 5 /\ world_size = 3
    /\ RangeSet(ranges[0]) = {0, 1} /\ RangeSet(ranges[2]) = {4}

\* the number of positions of a list that hold x
Occurrences(l, x) == Cardinality({k \in 1..Len(l) : l[k] = x})

\* C2: the modulo lists of ranks 0 .. world_size-1 cover every index of
\* [0, size) exactly once: no list repeats an index or holds one outside
\* [0, size), no index is in two lists, and every index is in one.
C2_ModuloCoversOnce ==
    /\ \A r \in DOMAIN local_indices :
          \A k \in 1..Len(local_indices[r]) :
             /\ local_indices[r][k] \in Indices
             /\ Occurrences(local_indices[r], local_indices[r][k]) = 1
    /\ \A r, q \in DOMAIN local_indices :
          r # q => \A x \in Indices :
                      ~(Occurrences(local_indices[r], x) > 0 /\ Occurrences(local_indices[q], x) > 0)
    /\ AllSamplersBuilt =>
          \A x \in Indices :
             Cardinality({r \in Ranks : Occurrences(local_indices[r], x) = 1}) = 1

C2_Witness ==
    /\ AllSamplersBuilt /\ total_size = 5 /\ world_size = 3
    /\ local_indices[1] = <<1, 4>>

\* C3: the range of rank r has total_size // world_size + 1 indices when
\* r < total_size % world_size and total_size // world_size otherwise, the
\* range of rank r+1 begins where that of rank r ends, and two ranks'
\* lengths differ by at most 1.
C3_NearEqualRemainderFirst ==
    /\ \A r \in DOMAIN ranges :
          RangeLen(ranges[r]) =
             IF r < total_size % world_size
             THEN (total_size \div world_size) + 1
             ELSE total_size \div world_size
    /\ \A r \in DOMAIN ranges :
          (r + 1) \in DOMAIN ranges => ranges[r + 1].begin = ranges[r].end
    /\ \A r, q \in DOMAIN ranges :
          RangeLen(ranges[r]) - RangeLen(ranges[q]) \in {-1, 0, 1}

C3_Witness ==
    /\ AllRangesComputed /\ total_size = 5 /\ world_size = 3
    /\ RangeLen(ranges[0]) = 2 /\ RangeLen(ranges[1]) = 2 /\ RangeLen(ranges[2]) = 1

SeqToSet(l) == {l[k] : k \in 1..Len(l)}

ModuloSet(r) == {x \in Indices : x % world_size = r}

\* C9: the sampler yields exactly the indices with i mod world_size = rank,
\* in ascending order, and __len__ is the number yielded; and the modulo
\* sets differ from the contiguous ranges for some rank exactly when
\* size > world_size >= 2.
C9_ModuloUsedAndDiffers ==
    /\ \A r \in DOMAIN local_indices :
          /\ SeqToSet(yielded[r]) \subseteq ModuloSet(r)
          /\ \A k \in 1..(Len(yielded[r]) - 1) : yielded[r][k] < yielded[r][k + 1]
          /\ r \in exhausted =>
                /\ SeqToSet(yielded[r]) = ModuloSet(r)
                /\ r \in DOMAIN sampler_len => sampler_len[r] = Len(yielded[r])
          /\ r \in DOMAIN sampler_len => sampler_len[r] = Cardinality(ModuloSet(r))
    /\ (AllSamplersBuilt /\ AllRangesComputed) =>
          ( (\E r \in Ranks : SeqToSet(local_indices[r]) # RangeSet(ranges[r]))
            <=> (total_size > world_size /\ world_size >= 2) )

C9_Witness ==
    /\ AllSamplersBuilt /\ AllRangesComputed
    /\ total_size = 5 /\ world_size = 2
    /\ exhausted = Ranks /\ DOMAIN sampler_len = Ranks
    /\ yielded[0] = <<0, 2, 4>> /\ RangeSet(ranges[0]) = {0, 1, 2}

(***************************************************************************)
(* The dataset, the task and the model's answers.                          *)
(***************************************************************************)
\* chr(ord("A") + n)
ChrFromA(n) == IF n = 0 THEN "A" ELSE IF n = 1 THEN "B" ELSE "@"

\* self.data[index] of LongVideoBenchDataset: the annotation of one video
\* question, two non-empty candidate answers and the index of the right one
Data(index) ==
    [id |-> index,
     candidates |-> << <<"x">>, <<"y", ".">> >>,
     correct_choice |-> index % 2]

\* LongVideoBenchDataset.__getitem__: the 'answer' field,
\* chr(ord("A") + correct_choice) + '. ' + candidates[correct_choice]
Answer(index) ==
    LET di == Data(index)
    IN  <<ChrFromA(di.correct_choice)>> \o <<".", " ">> \o di.candidates[di.correct_choice + 1]

\* LongVideoBenchTask.__getitem__: gt_answer = '\n'.join(line['answer']),
\* a join over the characters of the answer string
GtAnswer(index) == Join(<<"\n">>, [k \in 1..Len(Answer(index)) |-> <<Answer(index)[k]>>])

\* the strings model.chat may return
ModelAnswers == {<<"A">>, <<"B", ".">>}

\* the record appended to outputs for one dataset index; the question text
\* and the task type (the annotation id) are those of that index
OutputRecord(index, pred) ==
    [question |-> index, pred |-> pred, gt |-> GtAnswer(index), task_type |-> Data(index).id]

\* json.dumps of a list of output records: the records' fields in order,
\* as one flat text
RECURSIVE Dumps(_)
Dumps(recs) ==
    IF recs = <<>> THEN <<>>
    ELSE <<Head(recs).question, Head(recs).pred, Head(recs).gt, Head(recs).task_type>>
            \o Dumps(Tail(recs))

\* json.loads of such a text
Loads(text) ==
    [k \in 1..(Len(text) \div 4) |->
        [question |-> text[4 * k - 3], pred |-> text[4 * k - 2],
         gt |-> text[4 * k - 1], task_type |-> text[4 * k]]]

\* itertools.chain.from_iterable over a list of lists
RECURSIVE Chain(_)
Chain(lists) == IF lists = <<>> THEN <<>> ELSE Head(lists) \o Chain(Tail(lists))

\* LongVideoBenchTask.evaluate: check_answer on every line, then the mean,
\* kept as the pair (number correct, number of lines)
Evaluate(lines) ==
    [Accuracy_overall |->
        [correct |-> Cardinality({k \in 1..Len(lines) : CheckAnswer(lines[k].pred, lines[k].gt)}),
         total |-> Len(lines)]]

EvaluateRaises(lines) == \E k \in 1..Len(lines) : CheckAnswerRaises(lines[k].pred, lines[k].gt)

(***************************************************************************)
(* evaluate_chat_model, one process per rank.  A collective call           *)
(* (barrier, all_gather_object) is entered by appending it to the rank's   *)
(* issued list and returns once every rank has entered the same call.      *)
(***************************************************************************)
\* the k-th collective of rank r has been entered by every rank
CollectiveReady(r) ==
    LET k == Len(issued[r])
    IN  \A q \in Ranks : Len(issued[q]) >= k /\ issued[q][k] = issued[r][k]

IsScoringRank_Last(r) == r = world_size - 1

\* if dist.get_rank() == 0
IsScoringRank(r) == r = 0

EvalInit ==
    /\ total_size \in 1..MaxEvalSize
    /\ world_size \in 1..MaxEvalWorld
    /\ local_indices = <<>>
    /\ yielded = <<>>
    /\ exhausted = {}
    /\ sampler_len = <<>>
    /\ sampler_exc = <<>>
    /\ ranges = <<>>
    /\ pc = [r \in Ranks |-> "start"]
    /\ outputs = [r \in Ranks |-> <<>>]
    /\ issued = [r \in Ranks |-> <<>>]
    /\ gathered = <<>>
    /\ merged_outputs = <<>>
    /\ metrics = <<>>
    /\ metrics_file = <<>>
    /\ CheckIdle /\ IOIdle

\* lines 279-293: the task, the dataset, the sampler and the loader are built
EvalSamplerInit(r) ==
    /\ pc[r] = "start"
    /\ total_size > 0
    /\ local_indices' = local_indices @@ (r :> LocalIndices(total_size, world_size, r))
    /\ yielded' = yielded @@ (r :> <<>>)
    /\ pc' = [pc EXCEPT ![r] = "loop"]
    /\ UNCHANGED <<total_size, world_size, exhausted, sampler_len, sampler_exc, ranges,
                   outputs, issued, gathered, merged_outputs, metrics, metrics_file,
                   checkVars, ioVars>>

\* one iteration of the loop: the loader takes the sampler's next index,
\* model.chat answers and the record is appended to outputs
EvalInference(r) ==
    /\ pc[r] = "loop"
    /\ Len(yielded[r]) < Len(local_indices[r])
    /\ LET index == local_indices[r][Len(yielded[r]) + 1]
       IN  /\ yielded' = [yielded EXCEPT ![r] = Append(@, index)]
           /\ \E pred \in ModelAnswers :
                 outputs' = [outputs EXCEPT ![r] = Append(@, OutputRecord(index, pred))]
    /\ UNCHANGED <<total_size, world_size, local_indices, exhausted, sampler_len,
                   sampler_exc, ranges, pc, issued, gathered, merged_outputs, metrics,
                   metrics_file, checkVars, ioVars>>

\* the sampler is exhausted, the loop ends and the first barrier is entered
EvalLoopEnd(r) ==
    /\ pc[r] = "loop"
    /\ Len(yielded[r]) = Len(local_indices[r])
    /\ exhausted' = exhausted \cup {r}
    /\ issued' = [issued EXCEPT ![r] = Append(@, "barrier")]
    /\ pc' = [pc EXCEPT ![r] = "barrier1"]
    /\ UNCHANGED <<total_size, world_size, local_indices, yielded, sampler_len,
                   sampler_exc, ranges, outputs, gathered, merged_outputs, metrics,
                   metrics_file, checkVars, ioVars>>

\* the first barrier returns; all_gather_object is entered with
\* json.dumps(outputs)
EvalAllGatherEnter(r) ==
    /\ pc[r] = "barrier1"
    /\ CollectiveReady(r)
    /\ gathered' = gathered @@ (r :> Dumps(outputs[r]))
    /\ issued' = [issued EXCEPT ![r] = Append(@, "all_gather_object")]
    /\ pc' = [pc EXCEPT ![r] = "all_gather"]
    /\ UNCHANGED <<total_size, world_size, local_indices, yielded, exhausted, sampler_len,
                   sampler_exc, ranges, outputs, merged_outputs, metrics, metrics_file,
                   checkVars, ioVars>>

\* all_gather_object returns the ranks' objects in rank order; they are
\* parsed and chained into merged_outputs
EvalAllGatherReturn(r) ==
    /\ pc[r] = "all_gather"
    /\ CollectiveReady(r)
    /\ merged_outputs' =
          merged_outputs @@ (r :> Chain([k \in 1..world_size |-> Loads(gathered[k - 1])]))
    /\ pc' = [pc EXCEPT ![r] = "merged"]
    /\ UNCHANGED <<total_size, world_size, local_indices, yielded, exhausted, sampler_len,
                   sampler_exc, ranges, outputs, issued, gathered, metrics, metrics_file,
                   checkVars, ioVars>>

\* rank 0: task.evaluate, the metrics file is written, the final barrier is
\* entered
EvalScore(r) ==
    /\ pc[r] = "merged"
    /\ IsScoringRank(r)
    /\ ~EvaluateRaises(merged_outputs[r])
    /\ metrics' = metrics @@ (r :> Evaluate(merged_outputs[r]))
    /\ metrics_file' = Append(metrics_file, [rank |-> r, metrics |-> metrics'[r]])
    /\ issued' = [issued EXCEPT ![r] = Append(@, "barrier")]
    /\ pc' = [pc EXCEPT ![r] = "barrier2"]
    /\ UNCHANGED <<total_size, world_size, local_indices, yielded, exhausted, sampler_len,
                   sampler_exc, ranges, outputs, gathered, merged_outputs,
                   checkVars, ioVars>>

\* any other rank: the final barrier is entered at once
EvalSkipScore(r) ==
    /\ pc[r] = "merged"
    /\ ~IsScoringRank(r)
    /\ issued' = [issued EXCEPT ![r] = Append(@, "barrier")]
    /\ pc' = [pc EXCEPT ![r] = "barrier2"]
    /\ UNCHANGED <<total_size, world_size, local_indices, yielded, exhausted, sampler_len,
                   sampler_exc, ranges, outputs, gathered, merged_outputs, metrics,
                   metrics_file, checkVars, ioVars>>

\* the final barrier returns and evaluate_chat_model ends
EvalFinalBarrierReturn(r) ==
    /\ pc[r] = "barrier2"
    /\ CollectiveReady(r)
    /\ pc' = [pc EXCEPT ![r] = "done"]
    /\ UNCHANGED <<total_size, world_size, local_indices, yielded, exhausted, sampler_len,
                   sampler_exc, ranges, outputs, issued, gathered, merged_outputs, metrics,
                   metrics_file, checkVars, ioVars>>

EvalNext ==
    \/ \E r \in Ranks : EvalSamplerInit(r)
    \/ \E r \in Ranks : EvalInference(r)
    \/ \E r \in Ranks : EvalLoopEnd(r)
    \/ \E r \in Ranks : EvalAllGatherEnter(r)
    \/ \E r \in Ranks : EvalAllGatherReturn(r)
    \/ \E r \in Ranks : EvalScore(r)
    \/ \E r \in Ranks : EvalSkipScore(r)
    \/ \E r \in Ranks : EvalFinalBarrierReturn(r)

SpecEval == EvalInit /\ [][EvalNext]_vars

\* the processes keep running: while some rank can take a step, a step is
\* eventually taken
FairSpecEval == EvalInit /\ [][EvalNext]_vars /\ WF_vars(EvalNext)

(***************************************************************************)
(* Claims about evaluate_chat_model (SpecEval, FairSpecEval).              *)
(***************************************************************************)
\* the number of records of a list that belong to dataset index x
RecordsOf(lines, x) == Cardinality({k \in 1..Len(lines) : lines[k].question = x})

\* rank r has run inference on every index it owns, and on nothing else
InferenceFinished(r) ==
    /\ pc[r] \notin {"start", "loop"}
    /\ {outputs[r][k].question : k \in 1..Len(outputs[r])} = ModuloSet(r)
    /\ Len(outputs[r]) = Cardinality(ModuloSet(r))

\* C7: the merged list holds exactly one record per dataset index, every
\* rank holds the same merged list, and rank 0 scores only after every
\* rank has finished inference on its own indices.
C7_MergedCoversDatasetOnce ==
    /\ \A r \in DOMAIN merged_outputs :
          /\ \A x \in Indices : RecordsOf(merged_outputs[r], x) = 1
          /\ Len(merged_outputs[r]) = total_size
    /\ \A r, q \in DOMAIN merged_outputs : merged_outputs[r] = merged_outputs[q]
    /\ (pc[0] \in {"merged", "barrier2", "done"} \/ metrics_file # <<>>)
          => \A r \in Ranks : InferenceFinished(r)
    /\ \A r \in DOMAIN metrics : metrics[r].Accuracy_overall.total = total_size

C7_Witness ==
    /\ world_size = 3 /\ total_size = 2
    /\ pc[0] = "done"
    /\ local_indices[2] = <<>>
    /\ Len(merged_outputs[0]) = 2
    /\ merged_outputs[0][2].question = 1
    /\ metrics[0].Accuracy_overall.correct = 1

CollectiveSequence == <<"barrier", "all_gather_object", "barrier">>

IsPrefix(a, b) == Len(a) <= Len(b) /\ SubSeq(b, 1, Len(a)) = a

AllDone == \A r \in Ranks : pc[r] = "done"

\* what holds of the collectives and of the metrics file in every state
CollectivesInStep ==
    /\ \A r \in Ranks :
          /\ IsPrefix(issued[r], CollectiveSequence)
          /\ pc[r] \in {"barrier2", "done"} => issued[r] = CollectiveSequence
    /\ \A k \in 1..Len(metrics_file) : metrics_file[k].rank = 0
    /\ Len(metrics_file) <= 1
    /\ AllDone => Len(metrics_file) = 1

====
